---- MODULE Spec2Model ----
(***************************************************************************)
(* Schelling segregation model with continuous homophily thresholds and    *)
(* perceived similarity (mesa_w_perception/model_uniform.py).              *)
(*                                                                         *)
(* Real-valued quantities (density, minority_pc, homophily, preference,    *)
(* accepted_dissimilar, similarity) are exact rationals <<num, den>> with  *)
(* den > 0 and gcd(num, den) = 1.  The grid, the scheduler and the data    *)
(* collector are the Mesa 2.x collaborators the source calls: SingleGrid   *)
(* (torus), RandomActivation and DataCollector.                            *)
(***************************************************************************)
EXTENDS Integers, Sequences, FiniteSets, TLC

VARIABLES
    cfg,        \* the constructor arguments (height, width, ..., set once)
    agents,     \* unique_id -> the SchellingAgent's fields
    grid,       \* SingleGrid: cell <<x, y>> -> unique_id of its content, None if empty
    schedule,   \* RandomActivation._agents: unique_ids in insertion order
    happy,      \* Schelling.happy
    similarity, \* Schelling.similarity (rational)
    running,    \* Model.running
    steps,      \* schedule.steps: completed scheduler rounds
    collected,  \* number of snapshots the DataCollector holds
    snapshot,   \* the snapshot recorded last
    pc,         \* "idle": no call of Schelling.step in progress; "stepping": inside schedule.step()
    order,      \* the shuffled agent keys of the round in progress
    idx,        \* how many keys of order have been activated
    activations,\* unique_id -> activations of that agent in the current round
    raised,     \* the exception the last call of Schelling.step ended with, "none" if it returned
    tick_grid   \* history: the grid as the call in progress found it (the grid itself between calls)

vars == <<cfg, agents, grid, schedule, happy, similarity, running, steps,
          collected, snapshot, pc, order, idx, activations, raised, tick_grid>>

----------------------------------------------------------------------------
(* Bounds of the model *)

\* Schelling.step is called at most MaxTicks times successfully.
MaxTicks == 2

\* Populations of at most MaxShuffled agents are shuffled into every
\* permutation; larger ones into rotations of the insertion order and of its
\* reverse.
MaxShuffled == 4

\* The content of an empty cell (unique ids start at 1).
None == 0

----------------------------------------------------------------------------
(* Exact rational arithmetic *)

Abs(n) == IF n < 0 THEN -n ELSE n

RECURSIVE Gcd(_, _)
Gcd(a, b) == IF b = 0 THEN a ELSE Gcd(b, a % b)

\* n/d in lowest terms with a positive denominator (d # 0)
Rat(n, d) ==
    LET g == Gcd(Abs(n), Abs(d))
        s == IF d < 0 THEN -1 ELSE 1
    IN  <<(s * n) \div g, (s * d) \div g>>

RInt(n) == <<n, 1>>
RAdd(a, b) == Rat(a[1] * b[2] + b[1] * a[2], a[2] * b[2])
RSub(a, b) == Rat(a[1] * b[2] - b[1] * a[2], a[2] * b[2])
RMul(a, b) == Rat(a[1] * b[1], a[2] * b[2])
RDiv(a, b) == Rat(a[1] * b[2], a[2] * b[1])      \* b # 0
RLt(a, b)  == a[1] * b[2] < b[1] * a[2]
RLe(a, b)  == a[1] * b[2] <= b[1] * a[2]
RZero(a)   == a[1] = 0

\* Python's round(x, 2): the nearest multiple of 1/100, a tie going to the
\* even multiple.
Round2(x) ==
    LET n == 100 * x[1]
        d == x[2]
        f == n \div d
        r == n - f * d
        k == IF 2 * r < d THEN f
             ELSE IF 2 * r > d THEN f + 1
             ELSE IF f % 2 = 0 THEN f ELSE f + 1
    IN  Rat(k, 100)

----------------------------------------------------------------------------
(* Constructor arguments *)

Half == Rat(1, 2)

Params(w, h, lb, ub, pref, rad, dens, minor) ==
    [width |-> w, height |-> h, homophily_lb |-> lb, homophily_ub |-> ub,
     preference |-> pref, radius |-> rad, density |-> dens, minority_pc |-> minor]

\* Argument tuples inside the documented ranges.
ValidConfigs ==
    { Params(4, 1, RInt(1), RInt(1), RInt(0), 1, Half, Half),
      Params(4, 1, RInt(0), RInt(2), Half, 1, Half, Half),
      Params(4, 1, RInt(1), RInt(1), Half, 1, Half, Half),
      Params(4, 1, RInt(0), RInt(0), Half, 1, Half, Half),
      Params(2, 2, RInt(1), RInt(1), RInt(0), 1, RInt(1), Half),
      Params(4, 1, RInt(1), RInt(1), RInt(0), 1, RInt(0), Half),
      Params(5, 5, RInt(1), RInt(1), RInt(0), 1, RInt(1), RInt(0)) }

\* Argument tuples outside them: homophily_lb > homophily_ub, density outside
\* [0, 1], radius < 1.
InvalidConfigs ==
    { Params(2, 2, RInt(1), RInt(0), RInt(0), 1, Half, RInt(0)),
      Params(2, 2, RInt(1), RInt(1), RInt(0), 1, Rat(3, 2), Half),
      Params(2, 2, RInt(1), RInt(1), RInt(0), 1, Rat(-1, 2), Half),
      Params(2, 2, RInt(1), RInt(1), RInt(0), 0, Half, Half) }

Configs == ValidConfigs \cup InvalidConfigs

\* The ranges section 6 of the specification documents for the arguments.
InRange(c) ==
    /\ c.width > 0 /\ c.height > 0
    /\ RLe(c.homophily_lb, c.homophily_ub)
    /\ RLe(RInt(0), c.preference)
    /\ c.radius >= 1
    /\ RLe(RInt(0), c.density) /\ RLe(c.density, RInt(1))
    /\ RLe(RInt(0), c.minority_pc) /\ RLe(c.minority_pc, RInt(1))

----------------------------------------------------------------------------
(* The grid *)

CellSet(c) == (0 .. c.width - 1) \X (0 .. c.height - 1)

\* SingleGrid.coord_iter: x outermost, y innermost.
CoordIter(c) ==
    [i \in 1 .. c.width * c.height |->
        <<(i - 1) \div c.height, (i - 1) % c.height>>]

Min(a, b) == IF a < b THEN a ELSE b

\* The neighbourhood with its centre (include_center=True).
Neighborhood_WithCenter(c, pos) ==
    LET xr == IF c.radius < c.width \div 2 THEN c.radius ELSE c.width \div 2
        yr == IF c.radius < c.height \div 2 THEN c.radius ELSE c.height \div 2
        kx == IF xr = c.width \div 2 /\ c.width % 2 = 0 THEN 1 ELSE 0
        ky == IF yr = c.height \div 2 /\ c.height % 2 = 0 THEN 1 ELSE 0
        nx == (xr - kx) + xr + 1
        ny == (yr - ky) + yr + 1
    IN  IF nx <= 0 \/ ny <= 0 THEN << >>
        ELSE [i \in 1 .. nx * ny |->
                <<(pos[1] + ((i - 1) \div ny) - xr) % c.width,
                  (pos[2] + ((i - 1) % ny) - yr) % c.height>>]

\* Grid.get_neighborhood(pos, moore=True, include_center=False, radius) on a
\* torus: the distinct cells at wrapped Chebyshev distance <= radius, in the
\* order Mesa lists them (dx outermost), without pos itself.
Neighborhood(c, pos) ==
    LET xr == Min(c.radius, c.width \div 2)
        yr == Min(c.radius, c.height \div 2)
        kx == IF xr = c.width \div 2 /\ c.width % 2 = 0 THEN 1 ELSE 0
        ky == IF yr = c.height \div 2 /\ c.height % 2 = 0 THEN 1 ELSE 0
        nx == (xr - kx) + xr + 1          \* number of dx values
        ny == (yr - ky) + yr + 1          \* number of dy values
        all == IF nx <= 0 \/ ny <= 0 THEN << >>
               ELSE [i \in 1 .. nx * ny |->
                      <<(pos[1] + ((i - 1) \div ny) - xr) % c.width,
                        (pos[2] + ((i - 1) % ny) - yr) % c.height>>]
    IN  SelectSeq(all, LAMBDA q : q # pos)

\* SingleGrid.empties
Empties(g) == {q \in DOMAIN g : g[q] = None}

----------------------------------------------------------------------------
(* Population initialization *)

\* self.random.random() < p, with random() in [0, 1)
Bernoulli(p) ==
    IF RLe(RInt(1), p) THEN {TRUE}
    ELSE IF RLe(p, RInt(0)) THEN {FALSE}
    ELSE {TRUE, FALSE}

\* The fractions u in [0, 1) the uniform generator is taken to return.
UniformSamples == {Rat(1, 4), Rat(3, 4)}

\* np.random.uniform(lb, ub) = lb + (ub - lb) * u
Uniform(lb, ub) == {RAdd(lb, RMul(RSub(ub, lb), u)) : u \in UniformSamples}

\* What the random sources return for one cell.
Draws(c) ==
    [place : Bernoulli(c.density), minority : Bernoulli(c.minority_pc),
     homophily : Uniform(c.homophily_lb, c.homophily_ub)]

\* SchellingAgent.__init__; seed is the argument np.random.seed was called
\* with before the homophily draw.
SchellingAgent(unique_id, agent_type, homophily, similar, accepted_dissimilar, pos, seed) ==
    [type |-> agent_type, homophily |-> homophily, similar |-> similar,
     accepted_dissimilar |-> accepted_dissimilar,
     perceived_similar |-> RAdd(RInt(similar), accepted_dissimilar),
     pos |-> pos, seed |-> seed]

\* The population loop of Schelling.__init__ from cell i of coord_iter on;
\* m holds current_id, the agents, the grid and the schedule built so far.
RECURSIVE Populate(_, _, _, _)
Populate(c, draws, i, m) ==
    IF i > c.width * c.height THEN m
    ELSE LET pos == CoordIter(c)[i]
             d == draws[pos]
         IN  IF d.place
             THEN LET agent_type == IF d.minority THEN 1 ELSE 0
                      seed == m.current_id + 1          \* first next_id()
                      unique_id == m.current_id + 2     \* second next_id()
                      agent == SchellingAgent(unique_id, agent_type, d.homophily,
                                              0, RInt(0), pos, seed)
                  IN  Populate(c, draws, i + 1,
                          [current_id |-> unique_id,
                           agents |-> [a \in DOMAIN m.agents \cup {unique_id} |->
                                          IF a = unique_id THEN agent ELSE m.agents[a]],
                           grid |-> [m.grid EXCEPT ![pos] = unique_id],
                           schedule |-> Append(m.schedule, unique_id)])
             ELSE Populate(c, draws, i + 1, m)

\* DataCollector.collect: the model reporters and the agent reporters.
Collect(ags, sched, hap, sim) ==
    [happy |-> hap, similarity |-> sim,
     agents |-> [a \in {sched[i] : i \in DOMAIN sched} |->
                    [similar |-> ags[a].similar,
                     perceived_similar |-> ags[a].perceived_similar,
                     type |-> ags[a].type]]]

\* Schelling.__init__
Init ==
    \E c \in Configs :
      \E draws \in [CellSet(c) -> Draws(c)] :
        LET m == Populate(c, draws, 1,
                    [current_id |-> 0, agents |-> << >>,
                     grid |-> [q \in CellSet(c) |-> None], schedule |-> << >>])
        IN  /\ cfg = c
            /\ agents = m.agents
            /\ grid = m.grid
            /\ schedule = m.schedule
            /\ happy = 0
            /\ similarity = RInt(0)
            /\ running = TRUE
            /\ steps = 0
            /\ collected = 1
            /\ snapshot = Collect(m.agents, m.schedule, 0, RInt(0))
            /\ pc = "idle"
            /\ order = << >>
            /\ idx = 0
            /\ activations = [a \in DOMAIN m.agents |-> 0]
            /\ raised = "none"
            /\ tick_grid = m.grid

----------------------------------------------------------------------------
(* SchellingAgent.step *)

\* CountNeighbors with the credit preference * homophily for
\* preference * (1 / homophily).
RECURSIVE CountNeighbors_Times(_, _, _, _, _, _)
CountNeighbors_Times(c, ags, g, self, nbrs, acc) ==
    IF nbrs = << >> THEN acc
    ELSE LET content == g[Head(nbrs)]
         IN  IF content = None
             THEN CountNeighbors_Times(c, ags, g, self, Tail(nbrs), acc)
             ELSE IF ags[content].type = ags[self].type
             THEN CountNeighbors_Times(c, ags, g, self, Tail(nbrs),
                                       [acc EXCEPT !.similar = @ + 1])
             ELSE CountNeighbors_Times(c, ags, g, self, Tail(nbrs),
                    [acc EXCEPT !.accepted_dissimilar =
                        RAdd(@, RMul(c.preference, ags[self].homophily))])

\* The neighbour loop of SchellingAgent.step over the cells nbrs[i..]:
\* acc.similar and acc.accepted_dissimilar are the agent's two fields, and
\* acc.error is set where 1/self.homophily divides by zero (the loop ends
\* there with the fields as they stand).
RECURSIVE CountNeighbors(_, _, _, _, _, _)
CountNeighbors(c, ags, g, self, nbrs, acc) ==
    IF nbrs = << >> THEN acc
    ELSE LET content == g[Head(nbrs)]
         IN  IF content = None
             THEN CountNeighbors(c, ags, g, self, Tail(nbrs), acc)
             ELSE IF ags[content].type = ags[self].type
             THEN CountNeighbors(c, ags, g, self, Tail(nbrs),
                                 [acc EXCEPT !.similar = @ + 1])
             ELSE IF RZero(ags[self].homophily)
             THEN [acc EXCEPT !.error = TRUE]
             ELSE CountNeighbors(c, ags, g, self, Tail(nbrs),
                    [acc EXCEPT !.accepted_dissimilar =
                        RAdd(@, RMul(RMul(c.preference,
                                          RDiv(RInt(1), ags[self].homophily)),
                                     RInt(1)))])

\* Perceive without the reset of lines 34-35: the counts of the tick are
\* added to the stored ones.
Perceive_NoReset(c, ags, g, self) ==
    CountNeighbors(c, ags, g, self, Neighborhood(c, ags[self].pos),
                   [similar |-> ags[self].similar,
                    accepted_dissimilar |-> ags[self].accepted_dissimilar,
                    error |-> FALSE])

\* Perceive on the grid as the tick found it, not as it stands.
Perceive_StartOfTick(c, ags, g, self) ==
    CountNeighbors(c, ags, tick_grid, self, Neighborhood(c, ags[self].pos),
                   [similar |-> 0, accepted_dissimilar |-> RInt(0), error |-> FALSE])

\* Lines 34-44: both fields reset to 0, then recomputed from the neighbours
\* of the agent's cell.
Perceive(c, ags, g, self) ==
    CountNeighbors(c, ags, g, self, Neighborhood(c, ags[self].pos),
                   [similar |-> 0, accepted_dissimilar |-> RInt(0), error |-> FALSE])

\* Unhappy with <= for <: equality with the threshold counts as unhappy.
Unhappy_OrEqual(sim, acc, homophily) == RLe(RAdd(RInt(sim), acc), homophily)

\* Unhappy with the comparison reversed.
Unhappy_Reversed(sim, acc, homophily) == RLt(homophily, RAdd(RInt(sim), acc))

\* Line 48: the agent is unhappy
Unhappy(sim, acc, homophily) == RLt(RAdd(RInt(sim), acc), homophily)

\* move_to_empty that vacates the old cell without occupying the new one.
move_to_empty_Vacates(ags, g, self) ==
    IF Empties(g) = {}
    THEN {[raised |-> "NoEmptyCells", agents |-> ags, grid |-> g]}
    ELSE {[raised |-> "none",
           agents |-> [ags EXCEPT ![self].pos = new_pos],
           grid |-> [g EXCEPT ![ags[self].pos] = None]] :
             new_pos \in Empties(g)}

\* move_to_empty that returns without a move where no cell is empty.
move_to_empty_Silent(ags, g, self) ==
    IF Empties(g) = {}
    THEN {[raised |-> "none", agents |-> ags, grid |-> g]}
    ELSE {[raised |-> "none",
           agents |-> [ags EXCEPT ![self].pos = new_pos],
           grid |-> [g EXCEPT ![ags[self].pos] = None, ![new_pos] = self]] :
             new_pos \in Empties(g)}

\* move_to_empty that occupies the new cell without vacating the old one.
move_to_empty_Keeps(ags, g, self) ==
    IF Empties(g) = {}
    THEN {[raised |-> "NoEmptyCells", agents |-> ags, grid |-> g]}
    ELSE {[raised |-> "none",
           agents |-> [ags EXCEPT ![self].pos = new_pos],
           grid |-> [g EXCEPT ![new_pos] = self]] :
             new_pos \in Empties(g)}

\* move_to_empty that takes any other cell, empty or not.
move_to_empty_AnyCell(ags, g, self) ==
    IF Empties(g) = {}
    THEN {[raised |-> "NoEmptyCells", agents |-> ags, grid |-> g]}
    ELSE {[raised |-> "none",
           agents |-> [ags EXCEPT ![self].pos = new_pos],
           grid |-> [g EXCEPT ![ags[self].pos] = None, ![new_pos] = self]] :
             new_pos \in DOMAIN g \ {ags[self].pos}}

\* SingleGrid.move_to_empty(agent): the outcomes, one per empty cell, or the
\* grid's Exception("ERROR: No empty cells") with nothing moved.
move_to_empty(ags, g, self) ==
    IF Empties(g) = {}
    THEN {[raised |-> "NoEmptyCells", agents |-> ags, grid |-> g]}
    ELSE {[raised |-> "none",
           agents |-> [ags EXCEPT ![self].pos = new_pos],
           grid |-> [g EXCEPT ![ags[self].pos] = None, ![new_pos] = self]] :
             new_pos \in Empties(g)}

\* SchellingAgent.step that counts the neighbours again after a move.
SchellingAgent_step_Recount(c, ags, g, hap, self) ==
    LET p == Perceive(c, ags, g, self)
        seen == [ags EXCEPT ![self].similar = p.similar,
                            ![self].accepted_dissimilar = p.accepted_dissimilar]
    IN  IF p.error
        THEN {[raised |-> "ZeroDivisionError", agents |-> seen, grid |-> g, happy |-> hap]}
        ELSE IF Unhappy(p.similar, p.accepted_dissimilar, ags[self].homophily)
        THEN {[raised |-> r.raised,
               agents |-> [r.agents EXCEPT
                             ![self].similar = Perceive(c, r.agents, r.grid, self).similar,
                             ![self].accepted_dissimilar =
                                 Perceive(c, r.agents, r.grid, self).accepted_dissimilar],
               grid |-> r.grid, happy |-> hap] :
                 r \in move_to_empty(seen, g, self)}
        ELSE {[raised |-> "none", agents |-> seen, grid |-> g, happy |-> hap + 1]}

\* SchellingAgent.step of agent self: the outcomes as the agents, the grid,
\* happy and the exception raised ("none" if it returns).
SchellingAgent_step(c, ags, g, hap, self) ==
    LET p == Perceive(c, ags, g, self)
        seen == [ags EXCEPT ![self].similar = p.similar,
                            ![self].accepted_dissimilar = p.accepted_dissimilar]
    IN  IF p.error
        THEN {[raised |-> "ZeroDivisionError", agents |-> seen, grid |-> g, happy |-> hap]}
        ELSE IF Unhappy(p.similar, p.accepted_dissimilar, ags[self].homophily)
        THEN {[raised |-> r.raised, agents |-> r.agents, grid |-> r.grid, happy |-> hap] :
                 r \in move_to_empty(seen, g, self)}
        ELSE {[raised |-> "none", agents |-> seen, grid |-> g, happy |-> hap + 1]}

\* A shuffle that draws the keys with replacement.
Shuffles_WithReplacement(sched) ==
    LET n == Len(sched)
    IN  IF n <= MaxShuffled
        THEN {[i \in 1 .. n |-> sched[p[i]]] : p \in [1 .. n -> 1 .. n]}
        ELSE {[i \in 1 .. n |-> sched[((i - 1 + k) % n) + 1]] : k \in 0 .. n - 1}

\* RandomActivation shuffles the agent keys: every permutation of a small
\* population, rotations of the insertion order and of its reverse otherwise.
Shuffles(sched) ==
    LET n == Len(sched)
    IN  IF n <= MaxShuffled
        THEN {[i \in 1 .. n |-> sched[p[i]]] :
                p \in {q \in [1 .. n -> 1 .. n] :
                         \A i, j \in 1 .. n : q[i] = q[j] => i = j}}
        ELSE {[i \in 1 .. n |-> sched[((i - 1 + k) % n) + 1]] : k \in 0 .. n - 1}
             \cup {[i \in 1 .. n |-> sched[n - ((i - 1 + k) % n)]] : k \in 0 .. n - 1}

\* StepBegin without the reset of happy.
StepBegin_NoReset ==
    /\ pc = "idle"
    /\ steps < MaxTicks
    /\ raised' = "none"
    /\ \E o \in Shuffles(schedule) : order' = o
    /\ idx' = 0
    /\ activations' = [a \in DOMAIN agents |-> 0]
    /\ pc' = "stepping"
    /\ tick_grid' = grid
    /\ UNCHANGED <<cfg, agents, grid, schedule, happy, similarity, running, steps,
                   collected, snapshot>>

\* Schelling.step up to the shuffle inside schedule.step(): happy is reset
\* and the keys are shuffled.
StepBegin ==
    /\ pc = "idle"
    /\ steps < MaxTicks
    /\ happy' = 0
    /\ raised' = "none"
    /\ \E o \in Shuffles(schedule) : order' = o
    /\ idx' = 0
    /\ activations' = [a \in DOMAIN agents |-> 0]
    /\ pc' = "stepping"
    /\ tick_grid' = grid
    /\ UNCHANGED <<cfg, agents, grid, schedule, similarity, running, steps,
                   collected, snapshot>>

\* The activation of the next key of the shuffled order.  An exception
\* leaves schedule.step() and Schelling.step at once.
AgentStep ==
    /\ pc = "stepping"
    /\ idx < Len(order)
    /\ \E r \in SchellingAgent_step(cfg, agents, grid, happy, order[idx + 1]) :
         /\ agents' = r.agents
         /\ grid' = r.grid
         /\ happy' = r.happy
         /\ raised' = r.raised
         /\ pc' = IF r.raised = "none" THEN "stepping" ELSE "idle"
         /\ order' = IF r.raised = "none" THEN order ELSE << >>
         /\ idx' = IF r.raised = "none" THEN idx + 1 ELSE 0
         /\ tick_grid' = IF r.raised = "none" THEN tick_grid ELSE r.grid
    /\ activations' = [activations EXCEPT ![order[idx + 1]] = @ + 1]
    /\ UNCHANGED <<cfg, schedule, similarity, running, steps, collected, snapshot>>

\* calc_similarity: the numerator and the denominator N
SumSimilar(ags, sched) ==
    LET RECURSIVE Sum(_)
        Sum(i) == IF i > Len(sched) THEN 0 ELSE ags[sched[i]].similar + Sum(i + 1)
    IN  Sum(1)

NominalCapacity(c) == RMul(RMul(c.density, RInt(c.width)), RInt(c.height))

\* calc_similarity over the number of agents placed.
calc_similarity_LiveCount(c, ags, sched) ==
    IF Len(sched) = 0 THEN RInt(0)
    ELSE RDiv(RInt(SumSimilar(ags, sched)), RInt(Len(sched)))

calc_similarity(c, ags, sched) == RDiv(RInt(SumSimilar(ags, sched)), NominalCapacity(c))

\* The halting test off by one.
AllHappy_ButOne(hap, sched) == hap >= Len(sched) - 1

\* Line 129: the halting test
AllHappy(hap, sched) == hap = Len(sched)

\* StepEnd with the snapshot taken before the similarity is computed.
StepEnd_CollectFirst ==
    /\ pc = "stepping"
    /\ idx = Len(order)
    /\ steps' = steps + 1
    /\ pc' = "idle" /\ order' = << >> /\ idx' = 0
    /\ collected' = collected + 1
    /\ snapshot' = Collect(agents, schedule, happy, similarity)
    /\ IF RZero(NominalCapacity(cfg))
       THEN /\ raised' = "ZeroDivisionError"
            /\ UNCHANGED <<similarity, running>>
       ELSE /\ similarity' = Round2(calc_similarity(cfg, agents, schedule))
            /\ running' = IF AllHappy(happy, schedule) THEN FALSE ELSE running
            /\ UNCHANGED raised
    /\ tick_grid' = grid
    /\ UNCHANGED <<cfg, agents, grid, schedule, happy, activations>>

\* Schelling.step after the last activation: schedule.steps is advanced, the
\* similarity computed (a ZeroDivisionError where N = 0), the snapshot taken
\* and the halting test made.
StepEnd ==
    /\ pc = "stepping"
    /\ idx = Len(order)
    /\ steps' = steps + 1
    /\ pc' = "idle" /\ order' = << >> /\ idx' = 0
    /\ IF RZero(NominalCapacity(cfg))
       THEN /\ raised' = "ZeroDivisionError"
            /\ UNCHANGED <<similarity, collected, snapshot, running>>
       ELSE /\ similarity' = Round2(calc_similarity(cfg, agents, schedule))
            /\ collected' = collected + 1
            /\ snapshot' = Collect(agents, schedule, happy, similarity')
            /\ running' = IF AllHappy(happy, schedule) THEN FALSE ELSE running
            /\ UNCHANGED raised
    /\ tick_grid' = grid
    /\ UNCHANGED <<cfg, agents, grid, schedule, happy, activations>>

Next == StepBegin \/ AgentStep \/ StepEnd

Spec == Init /\ [][Next]_vars

----------------------------------------------------------------------------
(* Vocabulary of the properties.  "The end of a tick" and "a completed     *)
(* tick" are the return of a call of Schelling.step; a call that raises    *)
(* has none.                                                               *)

Scheduled == {schedule[i] : i \in DOMAIN schedule}

\* a call of Schelling.step has returned and no other is in progress
Returned == pc = "idle" /\ raised = "none" /\ steps > 0

\* the step taken is the return of a call of Schelling.step
Returns == pc = "stepping" /\ pc' = "idle" /\ raised' = "none"

\* the step taken is an activation that returned
Activates == pc = "stepping" /\ pc' = "stepping" /\ idx' = idx + 1

\* similar + accepted_dissimilar >= homophily on the stored values of ag
Satisfied(ag) == RLe(ag.homophily, RAdd(RInt(ag.similar), ag.accepted_dissimilar))

\* wrapped distance between two coordinates on a ring of n cells
RingDist(a, b, n) == Min((a - b) % n, (b - a) % n)

\* the occupied cells within Moore distance radius of pos on the torus
OccupiedNear(c, g, pos) ==
    {q \in DOMAIN g : /\ q # pos
                      /\ g[q] # None
                      /\ RingDist(q[1], pos[1], c.width) <= c.radius
                      /\ RingDist(q[2], pos[2], c.height) <= c.radius}

\* direct recomputation of the two fields of agent a in grid g
DirectSimilar(c, ags, g, a) ==
    Cardinality({q \in OccupiedNear(c, g, ags[a].pos) : ags[g[q]].type = ags[a].type})

DirectDissimilar(c, ags, g, a) ==
    Cardinality({q \in OccupiedNear(c, g, ags[a].pos) : ags[g[q]].type # ags[a].type})

DirectAccepted(c, ags, g, a) ==
    IF DirectDissimilar(c, ags, g, a) = 0 THEN RInt(0)
    ELSE Rat(DirectDissimilar(c, ags, g, a) * c.preference[1] * ags[a].homophily[2],
             c.preference[2] * ags[a].homophily[1])

\* the fields of a agree with the direct recomputation in grid g
Fresh(c, ags, g, stored, a) ==
    /\ stored[a].similar = DirectSimilar(c, ags, g, a)
    /\ stored[a].accepted_dissimilar = DirectAccepted(c, ags, g, a)

\* C1: a call of Schelling.step that returns ends with running = FALSE if
\* and only if every scheduled agent passed the satisfaction test on the
\* values it computed in that tick; one agent that failed leaves running TRUE.
C1_Termination ==
    [][Returns =>
         /\ (running' = FALSE) <=> (\A a \in Scheduled : Satisfied(agents'[a]))
         /\ (\E a \in Scheduled : ~Satisfied(agents'[a])) => running' = TRUE]_vars

C1_Witness ==
    Returned /\ running = FALSE /\ Len(schedule) >= 2

\* C2: happy is never below 0 nor above the agent count; while no exception
\* was raised it is the number of agents activated in the tick whose stored
\* values pass the test (0 at the start, one more per satisfied agent, never
\* less), and at the end of a tick the number of all such scheduled agents.
C2_HappyCount ==
    /\ happy >= 0 /\ happy <= Len(schedule)
    /\ raised = "none" =>
         happy = Cardinality({a \in Scheduled :
                                 activations[a] > 0 /\ Satisfied(agents[a])})
    /\ Returned => happy = Cardinality({a \in Scheduled : Satisfied(agents[a])})

C2_Witness ==
    Returned /\ happy >= 1 /\ happy < Len(schedule)

\* C3 as claimed: after a completed tick the stored similar and
\* accepted_dissimilar of every agent equal the direct recomputation from
\* its neighbours in the grid as it stands at the end of the tick.
C3_FreshAtTickEnd ==
    Returned => \A a \in Scheduled : Fresh(cfg, agents, grid, agents, a)

\* C3 amended: an activation that returns stores the direct recomputation
\* from the agent's neighbours in the grid as it stands when the agent is
\* activated (before its own move), nothing else changes the two fields, and
\* a tick ends with every agent activated in it: the values at the end of a
\* tick are those of that tick's activation, none of an earlier tick.
C3_FreshAtActivation ==
    [][/\ Activates =>
            /\ Fresh(cfg, agents, grid, agents', order[idx + 1])
            /\ \A a \in Scheduled \ {order[idx + 1]} :
                   /\ agents'[a].similar = agents[a].similar
                   /\ agents'[a].accepted_dissimilar = agents[a].accepted_dissimilar
       /\ ~(pc = "stepping" /\ idx < Len(order)) =>
            \A a \in Scheduled :
                /\ agents'[a].similar = agents[a].similar
                /\ agents'[a].accepted_dissimilar = agents[a].accepted_dissimilar
       /\ Returns => \A a \in Scheduled : activations[a] = 1]_vars

\* a second tick has ended and an agent holds a value that differs from the
\* one it held before and from the count in the final grid
C3_Witness ==
    /\ Returned /\ steps = 2
    /\ \E a \in Scheduled :
         /\ agents[a].similar # snapshot.agents[a].similar \/ agents[a].similar > 0
         /\ ~Fresh(cfg, agents, grid, agents, a)

\* C4: in the states a snapshot records (after construction, after every
\* tick) perceived_similar of every agent is similar + accepted_dissimilar.
C4_PerceivedSimilar ==
    (pc = "idle" /\ raised = "none") =>
        \A a \in Scheduled :
            /\ agents[a].perceived_similar =
                   RAdd(RInt(agents[a].similar), agents[a].accepted_dissimilar)
            /\ snapshot.agents[a].perceived_similar = agents[a].perceived_similar

\* C5: no step creates or destroys an agent: the schedule and the set of
\* agents stay what they are, and the agents on the grid are the scheduled
\* ones, each on the cell its pos names.
C5_Population ==
    [][/\ schedule' = schedule
       /\ DOMAIN agents' = DOMAIN agents
       /\ {grid'[q] : q \in DOMAIN grid'} \ {None} = Scheduled
       /\ \A a \in Scheduled : grid'[agents'[a].pos] = a]_vars

C5_Witness ==
    /\ Returned /\ Len(schedule) >= 2
    /\ \E a \in Scheduled : ~Satisfied(agents[a])

\* C6: arguments outside the documented ranges are rejected at construction:
\* no model built from them is ever in a state where Schelling.step can run.
C6_InvalidRejected ==
    ~InRange(cfg) => ~(pc = "idle" /\ raised = "none" /\ running)

\* the agent about to be activated fails the satisfaction test in the grid
\* as it stands (and its neighbour loop divides by no zero)
NextIsUnhappy ==
    /\ pc = "stepping" /\ idx < Len(order)
    /\ LET a == order[idx + 1]
       IN  /\ DirectDissimilar(cfg, agents, grid, a) > 0 => ~RZero(agents[a].homophily)
           /\ RLt(RAdd(RInt(DirectSimilar(cfg, agents, grid, a)),
                       DirectAccepted(cfg, agents, grid, a)),
                  agents[a].homophily)

\* C7: an unsatisfied agent activated on a grid without an empty cell ends
\* the call of Schelling.step with the grid's exception: the grid and every
\* position stay as they are, no other agent is activated, the tick is
\* neither counted nor recorded, running keeps its value; and no activation
\* takes place while an exception stands.
C7_Saturation ==
    [][/\ (NextIsUnhappy /\ Empties(grid) = {}) =>
            /\ raised' = "NoEmptyCells"
            /\ pc' = "idle"
            /\ grid' = grid
            /\ \A a \in Scheduled : agents'[a].pos = agents[a].pos
            /\ \A a \in Scheduled \ {order[idx + 1]} : activations'[a] = activations[a]
            /\ running' = running
            /\ steps' = steps /\ collected' = collected /\ snapshot' = snapshot
       /\ raised' # "none" => pc' = "idle"
       /\ (raised # "none" /\ raised' = raised) => activations' = activations]_vars

C7_Witness ==
    raised = "NoEmptyCells" /\ InRange(cfg) /\ running /\ Empties(grid) = {}

\* the sum of similar over the scheduled agents
RECURSIVE SumOfSimilar(_, _)
SumOfSimilar(ags, S) ==
    IF S = {} THEN 0
    ELSE LET a == CHOOSE b \in S : TRUE
         IN  ags[a].similar + SumOfSimilar(ags, S \ {a})

\* |x - y| <= 1/200 for rationals x and y
WithinHalfHundredth(x, y) ==
    /\ RLe(RSub(x, y), Rat(1, 200))
    /\ RLe(RSub(y, x), Rat(1, 200))

\* C8: after every tick similarity is a multiple of 1/100 at most 1/200 away
\* from (sum of similar over the scheduled agents) / (density * width *
\* height), whatever the number of agents placed.
C8_Similarity ==
    Returned =>
        /\ 100 % similarity[2] = 0
        /\ WithinHalfHundredth(
               similarity,
               Rat(SumOfSimilar(agents, Scheduled) * cfg.density[2],
                   cfg.density[1] * cfg.width * cfg.height))

\* the nominal capacity differs from the number of agents placed
C8_Witness ==
    /\ Returned /\ ~RZero(similarity)
    /\ RInt(Len(schedule)) # Rat(cfg.density[1] * cfg.width * cfg.height, cfg.density[2])
    /\ similarity # Rat(SumOfSimilar(agents, Scheduled), Len(schedule))

\* the scenario of C9
Scenario5x5 ==
    Params(5, 5, RInt(1), RInt(1), RInt(0), 1, RInt(1), RInt(0))

\* C9: the 5 x 5 scenario starts with its 25 cells holding type-0 agents and
\* running TRUE; its first tick ends with happy = 25, every agent where it
\* was placed and running FALSE.
C9_Scenario ==
    cfg = Scenario5x5 =>
        /\ Len(schedule) = 25 /\ Cardinality(Scheduled) = 25
        /\ \A a \in Scheduled : agents[a].type = 0
        /\ steps = 0 =>
             /\ running
             /\ Empties(grid) = {}
        /\ raised = "none"
        /\ (pc = "idle" /\ steps = 1) =>
             /\ happy = 25
             /\ running = FALSE
        /\ \A i \in 1 .. 25 : agents[schedule[i]].pos = CoordIter(cfg)[i]

C9_Witness ==
    cfg = Scenario5x5 /\ pc = "idle" /\ steps = 1 /\ happy = 25 /\ ~running

\* C10: in a call of Schelling.step no agent is activated twice, the agents
\* activated so far are the first idx keys of a permutation of the schedule,
\* the call returns with every scheduled agent activated once, and
\* similarity, the snapshots and running change only in the step that
\* follows the last activation.
C10_OneRound ==
    [][/\ pc' = "stepping" =>
            /\ Len(order') = Len(schedule)
            /\ {order'[i] : i \in 1 .. Len(order')} = Scheduled
            /\ \A a \in Scheduled :
                   activations'[a] =
                       IF \E i \in 1 .. idx' : order'[i] = a THEN 1 ELSE 0
       /\ Returns => \A a \in Scheduled : activations[a] = 1 /\ activations'[a] = 1
       /\ <<similarity', collected', snapshot', running'>>
              # <<similarity, collected, snapshot, running>>
            => pc = "stepping" /\ idx = Len(order) /\ pc' = "idle"
                 /\ \A a \in Scheduled : activations[a] = 1]_vars

\* a tick of at least three agents has ended in which an agent relocated
C10_Witness ==
    /\ Returned /\ Len(schedule) >= 3
    /\ \A a \in Scheduled : activations[a] = 1
    /\ \E a \in Scheduled : ~Satisfied(agents[a])

\* C11: every agent was created with the unique id that np.random.seed was
\* given before its homophily draw.
C11_SeedIsId ==
    \A a \in Scheduled : agents[a].seed = a

\* C12: construction leaves one snapshot, of happy = 0 and similarity = 0;
\* the return of a call of Schelling.step adds exactly one, which records
\* happy, the similarity just computed and the agents' similar, and changes
\* no agent, cell or happy; no other step adds or changes a snapshot; where
\* density * width * height is not 0 the log holds one snapshot more than
\* the ticks done.
C12_Snapshots ==
    [][/\ collected = 1 => snapshot.happy = 0 /\ snapshot.similarity = RInt(0)
       /\ Returns =>
            /\ collected' = collected + 1
            /\ agents' = agents /\ grid' = grid /\ happy' = happy
            /\ snapshot'.happy = happy'
            /\ snapshot'.similarity = similarity'
            /\ \A a \in Scheduled : snapshot'.agents[a].similar = agents'[a].similar
       /\ ~Returns => collected' = collected /\ snapshot' = snapshot
       /\ ~RZero(NominalCapacity(cfg)) => collected' = steps' + 1]_vars

C12_Witness ==
    /\ Returned /\ steps = 2 /\ collected = 3 /\ Len(schedule) >= 2
    /\ ~RZero(snapshot.similarity)

\* C13: an activation changes no type and no homophily, nor the position,
\* similar or accepted_dissimilar of any other agent; an agent that passes
\* the test stays where it is and the grid with it; one that fails moves to
\* a cell that was empty, leaves its own cell empty and every other cell
\* alone, and keeps the counts of its old position.
C13_Frame ==
    [][(pc = "stepping" /\ idx < Len(order)) =>
         LET self == order[idx + 1]
         IN  /\ \A a \in Scheduled :
                   /\ agents'[a].type = agents[a].type
                   /\ agents'[a].homophily = agents[a].homophily
             /\ \A a \in Scheduled \ {self} :
                   /\ agents'[a].pos = agents[a].pos
                   /\ agents'[a].similar = agents[a].similar
                   /\ agents'[a].accepted_dissimilar = agents[a].accepted_dissimilar
             /\ (Activates /\ Satisfied(agents'[self])) =>
                   /\ agents'[self].pos = agents[self].pos
                   /\ grid' = grid
             /\ (Activates /\ ~Satisfied(agents'[self])) =>
                   /\ agents'[self].pos \in Empties(grid)
                   /\ grid' = [grid EXCEPT ![agents[self].pos] = None,
                                           ![agents'[self].pos] = self]
                   /\ Fresh(cfg, agents, grid, agents', self)]_vars

\* an agent with a neighbour has just moved next to nobody of its type
C13_Witness ==
    /\ pc = "stepping" /\ idx >= 1
    /\ LET a == order[idx]
       IN  /\ ~Satisfied(agents[a])
           /\ agents[a].similar > 0
           /\ DirectSimilar(cfg, agents, grid, a) = 0

\* the cell where the call in progress found agent a
StartPos(a) == CHOOSE q \in DOMAIN tick_grid : tick_grid[q] = a

\* the same-type neighbours agent a had when the call in progress began
SimilarAtStart(a) ==
    Cardinality({q \in OccupiedNear(cfg, tick_grid, StartPos(a)) :
                    agents[tick_grid[q]].type = agents[a].type})

\* C14: an activation stores the same-type count of the grid as it stands at
\* that moment, and that grid is the one the tick began with changed by the
\* moves of the agents activated before and by no other: an agent not yet
\* activated stands where the tick found it, one that failed the test
\* earlier in the tick stands elsewhere.
C14_PartialGrid ==
    [][Activates =>
         LET self == order[idx + 1]
         IN  /\ agents'[self].similar = DirectSimilar(cfg, agents, grid, self)
             /\ \A a \in Scheduled :
                   /\ grid[agents[a].pos] = a
                   /\ activations[a] = 0 => tick_grid[agents[a].pos] = a
                   /\ (activations[a] = 1 /\ ~Satisfied(agents[a])) =>
                          tick_grid[agents[a].pos] # a
                   /\ (activations[a] = 1 /\ Satisfied(agents[a])) =>
                          tick_grid[agents[a].pos] = a]_vars

\* the agent activated last counted what the grid at the start of the tick
\* did not show
C14_Witness ==
    /\ pc = "stepping" /\ idx >= 2
    /\ agents[order[idx]].similar # SimilarAtStart(order[idx])

\* C15: an activation that returns stores similar = s and
\* accepted_dissimilar = d * preference / homophily for the s same-type and
\* d other-type occupied cells around the agent, moves the agent if and only
\* if s + d * preference / homophily < homophily, and counts it happy
\* otherwise, equality included.
C15_DecisionRule ==
    [][Activates =>
         LET self == order[idx + 1]
             s == DirectSimilar(cfg, agents, grid, self)
             d == DirectDissimilar(cfg, agents, grid, self)
             h == agents[self].homophily
             credit == IF d = 0 THEN RInt(0)
                       ELSE RDiv(RMul(RInt(d), cfg.preference), h)
             score == RAdd(RInt(s), credit)
         IN  /\ s + d = Cardinality(OccupiedNear(cfg, grid, agents[self].pos))
             /\ agents'[self].similar = s
             /\ agents'[self].accepted_dissimilar = credit
             /\ (agents'[self].pos # agents[self].pos) <=> RLt(score, h)
             /\ (happy' = happy + 1) <=> (score = h \/ RLt(h, score))
             /\ happy' = happy \/ happy' = happy + 1]_vars

\* an agent has just stayed on a score equal to its threshold, part of it
\* credit for dissimilar neighbours
C15_Witness ==
    /\ pc = "stepping" /\ idx >= 1
    /\ LET a == order[idx]
       IN  /\ RAdd(RInt(agents[a].similar), agents[a].accepted_dissimilar)
                 = agents[a].homophily
           /\ ~RZero(agents[a].accepted_dissimilar)
           /\ grid[agents[a].pos] = a /\ tick_grid[agents[a].pos] = a

\* C16 as claimed: a model constructed with density < 1 has an empty cell in
\* every reachable state.
C16_Headroom ==
    (InRange(cfg) /\ RLt(cfg.density, RInt(1))) => Empties(grid) # {}

\* C16 amended: with density < 1, once a cell is empty a cell is empty ever
\* after, and an unsatisfied agent activated then moves to an empty cell:
\* no call ends for want of one.
C16_HeadroomKept ==
    [][(RLt(cfg.density, RInt(1)) /\ Empties(grid) # {}) =>
         /\ Empties(grid') # {}
         /\ raised' # "NoEmptyCells"
         /\ NextIsUnhappy =>
              /\ agents'[order[idx + 1]].pos \in Empties(grid)
              /\ grid'[agents'[order[idx + 1]].pos] = order[idx + 1]]_vars

\* an agent has just taken the only empty cell
C16_Witness ==
    /\ RLt(cfg.density, RInt(1))
    /\ pc = "stepping" /\ idx >= 1
    /\ ~Satisfied(agents[order[idx]])
    /\ tick_grid[agents[order[idx]].pos] = None
    /\ Cardinality(Empties(grid)) = 1

\* C17: once running is FALSE it stays FALSE, no step changes an agent or a
\* cell or raises, and every further call of Schelling.step returns with
\* happy equal to the agent count and similarity as it was.
C17_FixedPoint ==
    [][running = FALSE =>
         /\ running' = FALSE
         /\ agents' = agents
         /\ grid' = grid
         /\ raised' = "none"
         /\ Returns => /\ happy' = Len(schedule)
                       /\ similarity' = similarity]_vars

C17_Witness ==
    /\ Returned /\ steps = 2 /\ running = FALSE
    /\ snapshot.happy = Len(schedule) /\ Len(schedule) >= 2
    /\ ~RZero(similarity)

\* C18: every scheduled agent is the content of the cell its pos names,
\* every occupied cell holds a scheduled agent whose pos is that cell, and
\* the empty cells number width * height minus the agent count.
C18_OnePerCell ==
    /\ Cardinality(Scheduled) = Len(schedule)
    /\ \A a \in Scheduled : agents[a].pos \in DOMAIN grid /\ grid[agents[a].pos] = a
    /\ \A q \in DOMAIN grid :
          grid[q] # None => grid[q] \in Scheduled /\ agents[grid[q]].pos = q
    /\ Cardinality(Empties(grid)) = cfg.width * cfg.height - Len(schedule)

\* between two activations, after a move, on a grid of three agents or more
C18_Witness ==
    /\ pc = "stepping" /\ idx >= 1 /\ idx < Len(order)
    /\ Len(schedule) >= 3
    /\ tick_grid[agents[order[idx]].pos] = None

\* agent a is the only one of its type
Lone(a) == \A b \in Scheduled \ {a} : agents[b].type # agents[a].type

\* C19: with preference = 0 and every threshold above 0, an activation that
\* finds no same-type neighbour leaves the agent unsatisfied and moves it;
\* and while some agent is the only one of its type running stays TRUE and
\* every call that returns has moved that agent.
C19_LoneAgent ==
    [][(RZero(cfg.preference)
          /\ \A a \in Scheduled : RLt(RInt(0), agents[a].homophily)) =>
         /\ (Activates /\ DirectSimilar(cfg, agents, grid, order[idx + 1]) = 0) =>
              /\ ~Satisfied(agents'[order[idx + 1]])
              /\ agents'[order[idx + 1]].pos # agents[order[idx + 1]].pos
              /\ happy' = happy
         /\ (\E a \in Scheduled : Lone(a)) =>
              /\ running /\ running'
              /\ Returns => \A a \in Scheduled :
                                Lone(a) => tick_grid[agents[a].pos] # a]_vars

C19_Witness ==
    /\ Returned /\ steps = 2 /\ running
    /\ RZero(cfg.preference) /\ InRange(cfg)
    /\ Len(schedule) >= 3
    /\ \E a \in Scheduled : Lone(a) /\ RLt(RInt(0), agents[a].homophily)

\* C20: with arguments inside the documented ranges no call of
\* Schelling.step ends in an arithmetic error.
C20_NoArithmeticError ==
    InRange(cfg) => raised # "ZeroDivisionError"

====
